---- MODULE Spec2Model ----
(***************************************************************************)
(* Model of the AdvancedMD schedule generator (src/main.py): the CSV to    *)
(* worksheet transformation, the styling of the worksheet, the derivation  *)
(* of the output file name and the Submit handler of the event loop.       *)
(*                                                                         *)
(* Text is modelled as a sequence of one-character strings, so that the    *)
(* two regular expressions of the program are computed character by        *)
(* character.                                                              *)
(***************************************************************************)
EXTENDS Integers, Sequences, FiniteSets, TLC

\* ------------------------------------------------------------------------
\* Bounds
\* ------------------------------------------------------------------------
MaxLen == 6        \* longest text given to the two text functions
MaxRows == 2       \* most data rows in the input CSV
MaxSubmits == 2    \* most Submit events in one session

\* ------------------------------------------------------------------------
\* Text
\* ------------------------------------------------------------------------
Chars == {"P", "a", "_", ",", " ", "\n"}

Strings == UNION {[1..k -> Chars] : k \in 0..MaxLen}

\* \s of the re module, restricted to Chars
Whitespace == {" ", "\n"}

\* \w of the re module, restricted to Chars
WordChars == {"P", "a", "_"}

\* "." of the re module (no DOTALL flag): any character but the newline
DotMatches(c) == c # "\n"

\* number of consecutive characters from index i on that "." matches
RECURSIVE DotRun(_, _)
DotRun(s, i) ==
    IF i <= Len(s) /\ DotMatches(s[i]) THEN 1 + DotRun(s, i + 1) ELSE 0

\* the greedy ".+" gives back one character at a time until ",\s" follows;
\* k is the number of characters ".+" still holds; the result is the index
\* of the last character of the match, 0 when there is none
RECURSIVE Backtrack(_, _)
Backtrack(s, k) ==
    IF k < 1 THEN 0
    ELSE IF k + 3 <= Len(s) /\ s[k + 2] = "," /\ s[k + 3] \in Whitespace
         THEN k + 3
         ELSE Backtrack(s, k - 1)

\* re.search(r"^P.+(,\s)", s): end of the match, 0 when there is none
provider_match(s) ==
    IF Len(s) >= 1 /\ s[1] = "P" THEN Backtrack(s, DotRun(s, 2)) ELSE 0

\* the lazy ".+?" takes one more character at a time
RECURSIVE Forward(_, _, _)
Forward(s, k, max) ==
    IF k > max THEN 0
    ELSE IF k + 3 <= Len(s) /\ s[k + 2] = "," /\ s[k + 3] \in Whitespace
         THEN k + 3
         ELSE Forward(s, k + 1, max)

\* get_provider with a lazy quantifier: stops at the first ",\s"
get_provider_lazy(provider_string) ==
    LET m == IF Len(provider_string) >= 1 /\ provider_string[1] = "P"
             THEN Forward(provider_string, 1, DotRun(provider_string, 2))
             ELSE 0
    IN  IF m > 0 THEN SubSeq(provider_string, 1, m) ELSE provider_string

\* get_provider returning the text before the captured group
get_provider_nogroup(provider_string) ==
    LET m == provider_match(provider_string)
    IN  IF m > 0 THEN SubSeq(provider_string, 1, m - 2) ELSE provider_string

get_provider(provider_string) ==
    LET m == provider_match(provider_string)
    IN  IF m > 0 THEN SubSeq(provider_string, 1, m) ELSE provider_string

\* number of consecutive non-word characters from index i on
RECURSIVE NonWordRun(_, _)
NonWordRun(s, i) ==
    IF i <= Len(s) /\ s[i] \notin WordChars THEN 1 + NonWordRun(s, i + 1) ELSE 0

\* re.sub(r"[\W]+", "_", s) from index i on: left to right, every maximal
\* run of non-word characters is replaced by one underscore
RECURSIVE re_sub(_, _)
re_sub(s, i) ==
    IF i > Len(s) THEN <<>>
    ELSE IF s[i] \in WordChars
         THEN <<s[i]>> \o re_sub(s, i + 1)
         ELSE <<"_">> \o re_sub(s, i + NonWordRun(s, i))

\* generate_output_filename without the "+": one underscore per character
generate_output_filename_each(provider_name) ==
    [i \in 1..Len(provider_name) |->
        IF provider_name[i] \in WordChars THEN provider_name[i] ELSE "_"]

generate_output_filename(provider_name) == re_sub(provider_name, 1)


\* ------------------------------------------------------------------------
\* The input CSV
\* ------------------------------------------------------------------------
\* the value of a cell that holds nothing (Python's None); every other value
\* is a text, a sequence of one-character strings or an opaque <<column, row>>
NoneVal == <<"None">>

EmptyText == <<>>

\* the keys of patient_appointment, in the order of the list
RequiredColumns ==
    <<"AppointmentTime", "Patient", "Comments", "PatientEmailAddress",
      "AppointmentTypeName", "Carrier", "Provider">>

MetaColumns == <<"Textbox9", "textbox29", "PracticeName">>

Range(f) == {f[i] : i \in DOMAIN f}

FullHeader == MetaColumns \o RequiredColumns

\* an export without the Carrier column
HeaderNoCarrier ==
    SelectSeq(FullHeader, LAMBDA c : c # "Carrier")

\* an export without the Textbox9 column
HeaderNoTextbox9 ==
    SelectSeq(FullHeader, LAMBDA c : c # "Textbox9")

Headers == {FullHeader, HeaderNoCarrier, HeaderNoTextbox9}

\* the records the export is made of
Toks == {"r1", "r2"}

\* the Textbox9 text of a record: "Pa, a, a" and "a a"
ProviderText(tok) ==
    IF tok = "r1" THEN <<"P", "a", ",", " ", "a", ",", " ", "a">>
    ELSE <<"a", " ", "a">>

\* the text of column col in record tok
Val(tok, col) == IF col = "Textbox9" THEN ProviderText(tok) ELSE <<col, tok>>

\* a line of the file: record tok cut after nf fields
Line(header, tok, nf) == [j \in 1..nf |-> Val(tok, header[j])]

LinesOf(header) ==
    {Line(header, tok, nf) : tok \in Toks, nf \in {Len(header) - 1, Len(header)}}

\* a file: the header line and the data lines
CsvContents ==
    UNION {{[fieldnames |-> h, lines |-> ls] :
               ls \in UNION {[1..n -> LinesOf(h)] : n \in 0..MaxRows}} :
           h \in Headers}

\* csv.DictReader: one line as a dict keyed by the header; a line shorter
\* than the header has None (restval) for the fields it lacks
DictRow(fieldnames, line) ==
    [c \in Range(fieldnames) |->
        LET j == CHOOSE i \in DOMAIN fieldnames : fieldnames[i] = c
        IN  IF j <= Len(line) THEN line[j] ELSE NoneVal]

\* patient_appointment with Patient and Comments exchanged
patient_appointment_swapped(csv_row) ==
    <<csv_row["AppointmentTime"], csv_row["Comments"], csv_row["Patient"],
      csv_row["PatientEmailAddress"], csv_row["AppointmentTypeName"],
      csv_row["Carrier"], csv_row["Provider"]>>

\* the list appended to the worksheet for one record
patient_appointment(csv_row) ==
    [i \in 1..Len(RequiredColumns) |-> csv_row[RequiredColumns[i]]]

\* ------------------------------------------------------------------------
\* The worksheet (openpyxl)
\* ------------------------------------------------------------------------
DefaultFont == [name |-> "Calibri", bold |-> FALSE, size |-> 11]

EmptyCell == [value |-> NoneVal, font |-> DefaultFont, wrap |-> FALSE]

\* the active sheet of a new Workbook()
NewSheet ==
    [cells |-> [p \in {} |-> EmptyCell],
     current_row |-> 0,
     orientation |-> "None",
     print_title_rows |-> "None",
     widths |-> [c \in {} |-> 0]]

Max(S) == CHOOSE x \in S : \A y \in S : y <= x

max_row(sheet) ==
    IF DOMAIN sheet.cells = {} THEN 1 ELSE Max({p[1] : p \in DOMAIN sheet.cells})

max_column(sheet) ==
    IF DOMAIN sheet.cells = {} THEN 1 ELSE Max({p[2] : p \in DOMAIN sheet.cells})

\* Worksheet.cell(row, column): the cell, created empty when absent
touch(sheet, r, c) ==
    IF <<r, c>> \in DOMAIN sheet.cells THEN sheet
    ELSE [sheet EXCEPT !.cells =
            [p \in DOMAIN sheet.cells \cup {<<r, c>>} |->
                IF p = <<r, c>> THEN EmptyCell ELSE sheet.cells[p]]]

\* Worksheet.cell(row, column, value): the value is set unless it is None
set_value(sheet, r, c, v) ==
    LET t == touch(sheet, r, c)
    IN  IF v = NoneVal THEN t ELSE [t EXCEPT !.cells[<<r, c>>].value = v]

set_font(sheet, r, c, f) ==
    [touch(sheet, r, c) EXCEPT !.cells[<<r, c>>].font = f]

\* Worksheet.append(list): a new row below the current one, one cell per item
append(sheet, values) ==
    LET row_idx == sheet.current_row + 1
        new == {<<row_idx, c>> : c \in 1..Len(values)}
    IN  [sheet EXCEPT
            !.cells = [p \in DOMAIN sheet.cells \cup new |->
                          IF p \in new
                          THEN [EmptyCell EXCEPT !.value = values[p[2]]]
                          ELSE sheet.cells[p]],
            !.current_row = row_idx]

\* the cell at p, as Worksheet.cell hands it out: created empty when absent
cell_at(sheet, p) ==
    IF p \in DOMAIN sheet.cells THEN sheet.cells[p] ELSE EmptyCell

\* list(ws.iter_rows(min_row=idx)), the first statement of insert_rows: the
\* cells of the rows idx..max_row in the columns 1..max_column are created
\* where absent, on a sheet without cells the cell A1
rows_from(sheet, idx) ==
    LET block == {<<r, c>> : r \in idx..max_row(sheet), c \in 1..max_column(sheet)}
    IN  [sheet EXCEPT
            !.cells = [p \in DOMAIN sheet.cells \cup block |-> cell_at(sheet, p)]]

\* the cells of the rows from first on move down by amount; the row counter
\* becomes max_row
move_rows(sheet, first, amount) ==
    LET moved(p) == IF p[1] >= first THEN <<p[1] + amount, p[2]>> ELSE p
        back(q) == CHOOSE p \in DOMAIN sheet.cells : moved(p) = q
        shifted == [sheet EXCEPT
                      !.cells = [q \in {moved(p) : p \in DOMAIN sheet.cells} |->
                                    sheet.cells[back(q)]]]
    IN  [shifted EXCEPT !.current_row = max_row(shifted)]

\* insert_rows moving only the rows below idx
insert_rows_below(sheet, idx, amount) ==
    move_rows(rows_from(sheet, idx), idx + 1, amount)

\* Worksheet.insert_rows(idx, amount): the rows from idx on are made
\* contiguous, every cell of row idx or below moves down by amount, and the
\* row counter is set to max_row
insert_rows(sheet, idx, amount) ==
    move_rows(rows_from(sheet, idx), idx, amount)

\* a loop "for cell in <row>: cell.font = f" over the columns 1..n of row r;
\* iterating the row creates its cells
font_row(sheet, r, n, f) ==
    LET block == {<<r, c>> : c \in 1..n}
    IN  [sheet EXCEPT
            !.cells = [p \in DOMAIN sheet.cells \cup block |->
                          IF p \in block
                          THEN [cell_at(sheet, p) EXCEPT !.font = f]
                          ELSE sheet.cells[p]]]

\* ws["5:5"]: the cells of row 5 in the columns 1..max_column
row_5_columns(sheet) == max_column(sheet)

\* the last loop of apply_styles, over ws.iter_rows(min_row=r, max_col=n) up
\* to the row last: every cell gets the font, the cells of column 3 the
\* wrapping; iterating the rows creates their cells
style_rows(sheet, r, last, n, f) ==
    LET block == {<<i, c>> : i \in r..last, c \in 1..n}
    IN  [sheet EXCEPT
            !.cells = [p \in DOMAIN sheet.cells \cup block |->
                          IF p \in block
                          THEN [cell_at(sheet, p) EXCEPT
                                  !.font = f,
                                  !.wrap = IF p[2] = 3 THEN TRUE ELSE @]
                          ELSE sheet.cells[p]]]

font_styles(font_name, provider_font_size, text_size) ==
    [provider_font |-> [name |-> font_name, bold |-> TRUE, size |-> provider_font_size],
     header_font |-> [name |-> font_name, bold |-> TRUE, size |-> text_size],
     row_font |-> [name |-> font_name, bold |-> FALSE, size |-> text_size]]

Labels == <<"Time", "Patient", "Comments", "Email", "Type", "Carrier", "Provider">>

\* ws["A5"] = "Time" ... ws["G5"] = "Provider"
RECURSIVE write_labels(_, _)
write_labels(sheet, n) ==
    IF n = 0 THEN sheet
    ELSE set_value(write_labels(sheet, n - 1), 5, n, <<Labels[n]>>)

apply_styles(sheet, provider_name, date_range, practice_name, font_name, provider_font_size, text_size) ==
    LET fonts == font_styles(font_name, provider_font_size, text_size)
        s1 == insert_rows(sheet, 1, 5)
        s2 == set_font(set_value(s1, 1, 1, provider_name), 1, 1, fonts.provider_font)
        s3 == set_font(set_value(s2, 2, 1, date_range), 2, 1, fonts.header_font)
        s4 == set_font(set_value(s3, 3, 1, practice_name), 3, 1, fonts.header_font)
        s5 == font_row(s4, 5, row_5_columns(s4), fonts.header_font)
        s6 == write_labels(s5, Len(Labels))
    IN  style_rows(s6, 6, max_row(s6), 8, fonts.row_font)

apply_print_settings(sheet) ==
    [sheet EXCEPT !.orientation = "landscape",
                  !.print_title_rows = "1:5",
                  !.widths = [c \in {"B", "C", "D"} |-> IF c = "C" THEN 30 ELSE 19]]

\* what Workbook.save writes of the sheet
Document(sheet) ==
    [cells |-> sheet.cells,
     orientation |-> sheet.orientation,
     print_title_rows |-> sheet.print_title_rows,
     widths |-> sheet.widths]


\* ------------------------------------------------------------------------
\* Paths and the file system
\* ------------------------------------------------------------------------
\* a path is absolute or relative and has components; "" is the relative
\* path without components
EmptyPath == [abs |-> FALSE, parts |-> <<>>]

Cwd == <<"cwd">>

\* path.abspath: a relative path is joined to the working directory, so the
\* empty string becomes the working directory
abspath(p) == IF p.abs THEN p ELSE [abs |-> TRUE, parts |-> Cwd \o p.parts]

\* the directories of the disk; "ro" cannot be written to
Dirs == {<<"cwd">>, <<"out">>, <<"ro">>}

Writable == {<<"cwd">>, <<"out">>}

\* the second export of the disk: one complete record
OtherCsv == [fieldnames |-> FullHeader,
             lines |-> <<Line(FullHeader, "r2", Len(FullHeader))>>]

\* what the user can type into the two inputs
InputValues ==
    {EmptyPath,
     [abs |-> FALSE, parts |-> <<"a.csv">>],
     [abs |-> TRUE, parts |-> <<"cwd", "b.csv">>],
     [abs |-> TRUE, parts |-> <<"missing.csv">>]}

OutputValues ==
    {EmptyPath,
     [abs |-> TRUE, parts |-> <<"out">>],
     [abs |-> TRUE, parts |-> <<"ro">>],
     [abs |-> TRUE, parts |-> <<"missing">>]}

\* ------------------------------------------------------------------------
\* State
\* ------------------------------------------------------------------------
VARIABLES
    disk_csv,        \* the content of the export cwd/a.csv
    fs,              \* the workbooks saved so far, by target path
    pc,              \* where the event loop is
    values_in,       \* values["-IN-"] of the last Submit
    values_out,      \* values["-OUT-"] of the last Submit
    file_selected,
    folder_selected,
    fieldnames,      \* csv_reader: the header
    csv_reader,      \* csv_reader: the lines not read yet
    iteration,
    ws,
    provider_name,
    date_range,
    practice_name,
    output_filename,
    popups,          \* the popups shown since the last Submit
    exception,       \* the exception that ended the program, or "none"
    trace,           \* the steps taken since the last Submit
    submits,         \* number of Submit events so far
    first_saved,     \* per input file and folder: what its first save wrote
    last_saved,      \* what the last save wrote
    sx,              \* text functions: the argument
    sy,              \* text functions: the result
    sz,              \* text functions: the result of the result
    sop              \* text functions: what has been applied

textvars == <<sx, sy, sz, sop>>

loopvars ==
    <<disk_csv, fs, pc, values_in, values_out, file_selected, folder_selected,
      fieldnames, csv_reader, iteration, ws, provider_name, date_range,
      practice_name, output_filename, popups, exception, trace, submits,
      first_saved, last_saved>>

vars == <<loopvars, textvars>>

\* the formatting chosen by the Submit handler
font_name == "Tahoma"
provider_font_size == 14
text_size == 8

\* the files that can be opened as a CSV export
CsvFiles == {<<"cwd", "a.csv">>, <<"cwd", "b.csv">>}

FileContent(parts) == IF parts = <<"cwd", "a.csv">> THEN disk_csv ELSE OtherCsv

\* path.exists
exists(p) == p.parts \in Dirs \cup CsvFiles

\* check_path_valid: TRUE, or None after the error popup
check_path_valid(selected) == selected.parts # <<>> /\ exists(selected)

\* the handler with the notification before the save
StepAfterNotifyFirst(step) ==
    CASE step = "check" -> "read"
      [] step = "read" -> "style"
      [] step = "style" -> "print"
      [] step = "print" -> "filename"
      [] step = "filename" -> "notify"
      [] step = "notify" -> "save"
      [] step = "save" -> "idle"

\* the statement that follows a statement of the handler
StepAfter(step) ==
    CASE step = "check" -> "read"
      [] step = "read" -> "style"
      [] step = "style" -> "print"
      [] step = "print" -> "filename"
      [] step = "filename" -> "save"
      [] step = "save" -> "notify"
      [] step = "notify" -> "idle"

\* Workbook() handing back the sheet of the previous Submit
WorkbookReused == ws

\* wb = Workbook(); ws = wb.active
Workbook == NewSheet

\* "{}/{}.xlsx".format(folder_selected, output_filename)
Target == [folder |-> folder_selected.parts, name |-> output_filename]

NoDocument == [cells |-> <<>>, orientation |-> "none",
               print_title_rows |-> "none", widths |-> <<>>]

NothingSaved == [target |-> [folder |-> <<>>, name |-> <<>>], doc |-> NoDocument]

NeverSaved == [target |-> [folder |-> <<>>, name |-> <<>>], doc |-> NoDocument,
               submit |-> 0]

Init ==
    /\ disk_csv \in CsvContents
    /\ fs = [t \in {} |-> NoDocument]
    /\ pc = "idle"
    /\ values_in = EmptyPath
    /\ values_out = EmptyPath
    /\ file_selected = EmptyPath
    /\ folder_selected = EmptyPath
    /\ fieldnames = <<>>
    /\ csv_reader = <<>>
    /\ iteration = 0
    /\ ws = NewSheet
    /\ provider_name = EmptyText
    /\ date_range = EmptyText
    /\ practice_name = EmptyText
    /\ output_filename = EmptyText
    /\ popups = <<>>
    /\ exception = "none"
    /\ trace = <<>>
    /\ submits = 0
    /\ first_saved = [k \in {} |-> NeverSaved]
    /\ last_saved = NothingSaved
    /\ sx = <<>> /\ sy = <<>> /\ sz = <<>> /\ sop = "none"

\* the program ends with an uncaught exception
Raise(e) ==
    /\ pc' = "crashed"
    /\ exception' = e

\* window.read() returns Exit or the window is closed
Exit ==
    /\ pc = "idle"
    /\ pc' = "exited"
    /\ UNCHANGED <<disk_csv, fs, values_in, values_out, file_selected,
                   folder_selected, fieldnames, csv_reader, iteration, ws,
                   provider_name, date_range, practice_name, output_filename,
                   popups, exception, trace, submits, first_saved, last_saved>>
    /\ UNCHANGED textvars

\* window.read() returns Submit with the two values
Submit ==
    /\ pc = "idle"
    /\ submits < MaxSubmits
    /\ \E vin \in InputValues, vout \in OutputValues :
        /\ values_in' = vin
        /\ values_out' = vout
        /\ file_selected' = abspath(vin)
        /\ folder_selected' = abspath(vout)
    /\ submits' = submits + 1
    /\ pc' = "check"
    /\ popups' = <<>>
    /\ trace' = <<>>
    /\ UNCHANGED <<disk_csv, fs, fieldnames, csv_reader, iteration, ws,
                   provider_name, date_range, practice_name, output_filename,
                   exception, first_saved, last_saved>>
    /\ UNCHANGED textvars

\* if check_path_valid(file_selected) and check_path_valid(folder_selected)
CheckPaths ==
    /\ pc = "check"
    /\ trace' = Append(trace, "check")
    /\ IF check_path_valid(file_selected)
       THEN IF check_path_valid(folder_selected)
            THEN /\ pc' = StepAfter("check")
                 /\ UNCHANGED popups
            ELSE /\ pc' = "idle"
                 /\ popups' = Append(popups, "error")
       ELSE /\ pc' = "idle"
            /\ popups' = Append(popups, "error")
    /\ UNCHANGED <<disk_csv, fs, values_in, values_out, file_selected,
                   folder_selected, fieldnames, csv_reader, iteration, ws,
                   provider_name, date_range, practice_name, output_filename,
                   exception, submits, first_saved, last_saved>>
    /\ UNCHANGED textvars

\* the new workbook, and write_csv_to_xlsx up to its loop
OpenCsv ==
    /\ pc = "read"
    /\ "read" \notin Range(trace)
    /\ trace' = Append(trace, "read")
    /\ ws' = Workbook
    /\ IF file_selected.parts \in CsvFiles
       THEN /\ fieldnames' = FileContent(file_selected.parts).fieldnames
            /\ csv_reader' = FileContent(file_selected.parts).lines
            /\ provider_name' = EmptyText
            /\ date_range' = EmptyText
            /\ practice_name' = EmptyText
            /\ iteration' = 0
            /\ UNCHANGED <<pc, exception>>
       ELSE /\ Raise("IsADirectoryError")
            /\ UNCHANGED <<fieldnames, csv_reader, provider_name, date_range,
                           practice_name, iteration>>
    /\ UNCHANGED <<disk_csv, fs, values_in, values_out, file_selected,
                   folder_selected, output_filename, popups, submits,
                   first_saved, last_saved>>
    /\ UNCHANGED textvars

\* one pass of the loop of write_csv_to_xlsx: the for statement takes the
\* next line from the reader before the body runs; on the first pass the three
\* header texts are looked up and assigned one after the other, then the 7
\* required keys are looked up in the order of the list; the first key the
\* row lacks raises KeyError, after the assignments that precede it
ReadRow ==
    /\ pc = "read"
    /\ "read" \in Range(trace)
    /\ csv_reader # <<>>
    /\ LET csv_row == DictRow(fieldnames, Head(csv_reader))
           has(c) == c \in DOMAIN csv_row
           first == iteration = 0
           got1 == first /\ has("Textbox9")
           got2 == got1 /\ has("textbox29")
           got3 == got2 /\ has("PracticeName")
           ok == (first => got3) /\ Range(RequiredColumns) \subseteq DOMAIN csv_row
       IN  /\ provider_name' = IF got1 THEN get_provider(csv_row["Textbox9"])
                               ELSE provider_name
           /\ date_range' = IF got2 THEN csv_row["textbox29"] ELSE date_range
           /\ practice_name' = IF got3 THEN csv_row["PracticeName"]
                               ELSE practice_name
           /\ iteration' = IF got3 THEN iteration + 1 ELSE iteration
           /\ csv_reader' = Tail(csv_reader)
           /\ IF ok
              THEN /\ ws' = append(ws, patient_appointment(csv_row))
                   /\ UNCHANGED <<pc, exception>>
              ELSE /\ Raise("KeyError")
                   /\ UNCHANGED ws
    /\ UNCHANGED <<disk_csv, fs, values_in, values_out, file_selected,
                   folder_selected, fieldnames, output_filename, popups, trace,
                   submits, first_saved, last_saved>>
    /\ UNCHANGED textvars

\* the loop of write_csv_to_xlsx ends and the function returns
ReadDone ==
    /\ pc = "read"
    /\ "read" \in Range(trace)
    /\ csv_reader = <<>>
    /\ pc' = StepAfter("read")
    /\ UNCHANGED <<disk_csv, fs, values_in, values_out, file_selected,
                   folder_selected, fieldnames, csv_reader, iteration, ws,
                   provider_name, date_range, practice_name, output_filename,
                   popups, exception, trace, submits, first_saved, last_saved>>
    /\ UNCHANGED textvars

ApplyStyles ==
    /\ pc = "style"
    /\ trace' = Append(trace, "style")
    /\ ws' = apply_styles(ws, provider_name, date_range, practice_name,
                          font_name, provider_font_size, text_size)
    /\ pc' = StepAfter("style")
    /\ UNCHANGED <<disk_csv, fs, values_in, values_out, file_selected,
                   folder_selected, fieldnames, csv_reader, iteration,
                   provider_name, date_range, practice_name, output_filename,
                   popups, exception, submits, first_saved, last_saved>>
    /\ UNCHANGED textvars

ApplyPrintSettings ==
    /\ pc = "print"
    /\ trace' = Append(trace, "print")
    /\ ws' = apply_print_settings(ws)
    /\ pc' = StepAfter("print")
    /\ UNCHANGED <<disk_csv, fs, values_in, values_out, file_selected,
                   folder_selected, fieldnames, csv_reader, iteration,
                   provider_name, date_range, practice_name, output_filename,
                   popups, exception, submits, first_saved, last_saved>>
    /\ UNCHANGED textvars

GenerateFilename ==
    /\ pc = "filename"
    /\ trace' = Append(trace, "filename")
    /\ output_filename' = generate_output_filename(provider_name)
    /\ pc' = StepAfter("filename")
    /\ UNCHANGED <<disk_csv, fs, values_in, values_out, file_selected,
                   folder_selected, fieldnames, csv_reader, iteration, ws,
                   provider_name, date_range, practice_name, popups, exception,
                   submits, first_saved, last_saved>>
    /\ UNCHANGED textvars

\* wb.save(filename=...): the file is written, or the program ends with the
\* error of the operating system
Save ==
    /\ pc = "save"
    /\ IF folder_selected.parts \in Writable
       THEN /\ trace' = Append(trace, "save")
            /\ fs' = [t \in DOMAIN fs \cup {Target} |->
                        IF t = Target THEN Document(ws) ELSE fs[t]]
            /\ last_saved' = [target |-> Target, doc |-> Document(ws)]
            /\ first_saved' =
                 LET k == <<file_selected, folder_selected>>
                 IN  IF k \in DOMAIN first_saved THEN first_saved
                     ELSE [j \in DOMAIN first_saved \cup {k} |->
                             IF j = k
                             THEN [target |-> Target, doc |-> Document(ws),
                                   submit |-> submits]
                             ELSE first_saved[j]]
            /\ pc' = StepAfter("save")
            /\ UNCHANGED exception
       ELSE /\ Raise("PermissionError")
            /\ UNCHANGED <<trace, fs, last_saved, first_saved>>
    /\ UNCHANGED <<disk_csv, values_in, values_out, file_selected,
                   folder_selected, fieldnames, csv_reader, iteration, ws,
                   provider_name, date_range, practice_name, output_filename,
                   popups, submits>>
    /\ UNCHANGED textvars

\* sg.popup_no_titlebar("File generated!")
Notify ==
    /\ pc = "notify"
    /\ trace' = Append(trace, "notify")
    /\ popups' = Append(popups, "success")
    /\ pc' = StepAfter("notify")
    /\ UNCHANGED <<disk_csv, fs, values_in, values_out, file_selected,
                   folder_selected, fieldnames, csv_reader, iteration, ws,
                   provider_name, date_range, practice_name, output_filename,
                   exception, submits, first_saved, last_saved>>
    /\ UNCHANGED textvars

Next ==
    \/ Exit
    \/ Submit
    \/ CheckPaths
    \/ OpenCsv
    \/ ReadRow
    \/ ReadDone
    \/ ApplyStyles
    \/ ApplyPrintSettings
    \/ GenerateFilename
    \/ Save
    \/ Notify

Spec == Init /\ [][Next]_vars


\* ------------------------------------------------------------------------
\* The two text functions on their own
\* ------------------------------------------------------------------------
InitText ==
    /\ disk_csv = OtherCsv
    /\ fs = [t \in {} |-> NoDocument]
    /\ pc = "idle"
    /\ values_in = EmptyPath
    /\ values_out = EmptyPath
    /\ file_selected = EmptyPath
    /\ folder_selected = EmptyPath
    /\ fieldnames = <<>>
    /\ csv_reader = <<>>
    /\ iteration = 0
    /\ ws = NewSheet
    /\ provider_name = EmptyText
    /\ date_range = EmptyText
    /\ practice_name = EmptyText
    /\ output_filename = EmptyText
    /\ popups = <<>>
    /\ exception = "none"
    /\ trace = <<>>
    /\ submits = 0
    /\ first_saved = [k \in {} |-> NeverSaved]
    /\ last_saved = NothingSaved
    /\ sx \in Strings
    /\ sy = <<>>
    /\ sz = <<>>
    /\ sop = "none"

\* get_provider(sx)
Extract ==
    /\ sop = "none"
    /\ sy' = get_provider(sx)
    /\ sop' = "extract"
    /\ UNCHANGED <<sx, sz>>
    /\ UNCHANGED loopvars

\* get_provider(get_provider(sx))
ExtractAgain ==
    /\ sop = "extract"
    /\ sz' = get_provider(sy)
    /\ sop' = "extract2"
    /\ UNCHANGED <<sx, sy>>
    /\ UNCHANGED loopvars

\* generate_output_filename(sx)
Derive ==
    /\ sop = "none"
    /\ sy' = generate_output_filename(sx)
    /\ sop' = "derive"
    /\ UNCHANGED <<sx, sz>>
    /\ UNCHANGED loopvars

\* generate_output_filename(generate_output_filename(sx))
DeriveAgain ==
    /\ sop = "derive"
    /\ sz' = generate_output_filename(sy)
    /\ sop' = "derive2"
    /\ UNCHANGED <<sx, sy>>
    /\ UNCHANGED loopvars

NextText ==
    \/ Extract
    \/ ExtractAgain
    \/ Derive
    \/ DeriveAgain

SpecText == InitText /\ [][NextText]_vars

\* ------------------------------------------------------------------------
\* Properties of get_provider
\* ------------------------------------------------------------------------
\* the indices of the commas of s that are followed by a single space
CommaSpace(s) == {j \in 1..(Len(s) - 1) : s[j] = "," /\ s[j + 1] = " "}

\* the indices of the commas of s that end a lead-in: a whitespace character
\* follows, at least one character lies between the first character and the
\* comma, and no line break lies before the comma
LeadInCommas(s) ==
    {j \in 3..(Len(s) - 1) :
        /\ s[j] = ","
        /\ s[j + 1] \in Whitespace
        /\ \A i \in 2..(j - 1) : s[i] # "\n"}

Min(S) == CHOOSE x \in S : \A y \in S : x <= y

\* C2 as stated: when the text starts with "P" and holds ", ", the result is
\* the prefix through the FIRST ", "; otherwise the text unchanged
C2_FirstOccurrence ==
    sop = "extract" =>
        sy = IF Len(sx) >= 1 /\ sx[1] = "P" /\ CommaSpace(sx) # {}
             THEN SubSeq(sx, 1, Min(CommaSpace(sx)) + 1)
             ELSE sx

\* C2 amended: when the text starts with "P" and, after at least one more
\* character and before any line break, holds a comma followed by a
\* whitespace character, the result is the prefix through the LAST such comma
\* and its whitespace character; otherwise the text unchanged
C2_LastOccurrence ==
    sop = "extract" =>
        sy = IF Len(sx) >= 1 /\ sx[1] = "P" /\ LeadInCommas(sx) # {}
             THEN SubSeq(sx, 1, Max(LeadInCommas(sx)) + 1)
             ELSE sx

\* a text that holds ", " twice has been cut after the second, not the first
C2_Witness ==
    /\ sop = "extract"
    /\ Len(sx) >= 1 /\ sx[1] = "P"
    /\ Cardinality(CommaSpace(sx)) >= 2
    /\ LeadInCommas(sx) # {}
    /\ Len(sy) < Len(sx)
    /\ Len(sy) = Max(CommaSpace(sx)) + 1

\* C7: extracting from an extracted provider name changes nothing
C7_Idempotent == sop = "extract2" => sz = sy

\* a text that matched, and was cut, has been extracted from twice
C7_Witness ==
    /\ sop = "extract2"
    /\ LeadInCommas(sx) # {}
    /\ sx[1] = "P"
    /\ sy # sx
    /\ LeadInCommas(sy) # {}
    /\ sz = sy

\* ------------------------------------------------------------------------
\* Properties of generate_output_filename
\* ------------------------------------------------------------------------
\* index i starts a maximal run of non-word characters of s
RunStart(s, i) ==
    /\ s[i] \notin WordChars
    /\ (i = 1 \/ s[i - 1] \in WordChars)

\* where the character at index i of s, or the underscore of the run that
\* starts at i, lies in the result
PlaceOf(s, i) ==
    Cardinality({k \in 1..i : s[k] \in WordChars \/ RunStart(s, k)})

\* C8: the derived name is made of word characters only, holds the word
\* characters of the text in place and exactly one underscore for each
\* maximal run of other characters, and deriving again changes nothing
C8_Stable ==
    /\ sop \in {"derive", "derive2"} =>
        /\ \A i \in 1..Len(sy) : sy[i] \in WordChars
        /\ Len(sy) = PlaceOf(sx, Len(sx))
        /\ \A i \in 1..Len(sx) :
            /\ sx[i] \in WordChars => sy[PlaceOf(sx, i)] = sx[i]
            /\ RunStart(sx, i) => sy[PlaceOf(sx, i)] = "_"
    /\ sop = "derive2" => sz = sy

\* a text with a leading run, a run of two and a trailing run was derived from
\* twice
C8_Witness ==
    /\ sop = "derive2"
    /\ Len(sx) >= 5
    /\ RunStart(sx, 1)
    /\ sx[2] \in WordChars
    /\ RunStart(sx, 3) /\ sx[4] \notin WordChars
    /\ sx[Len(sx)] \notin WordChars
    /\ Len(sy) < Len(sx)


\* ------------------------------------------------------------------------
\* Properties of the Submit handler
\* ------------------------------------------------------------------------
\* the export the current Submit reads
InputCsv == FileContent(file_selected.parts)

ColumnIndex(header, col) == CHOOSE j \in DOMAIN header : header[j] = col

\* the line carries the column
Carries(header, line, col) ==
    /\ col \in Range(header)
    /\ ColumnIndex(header, col) <= Len(line)

\* every data line of the export carries the 7 required columns
AllRowsComplete(csv) ==
    \A i \in DOMAIN csv.lines : \A c \in Range(RequiredColumns) :
        Carries(csv.fieldnames, csv.lines[i], c)

\* the worksheet has been built and styled from an export by this Submit
Styled == "style" \in Range(trace) /\ file_selected.parts \in CsvFiles

\* C1: after write_csv_to_xlsx and apply_styles on an export of N complete
\* data lines, the rows from 6 on that hold a value are the rows 6..5+N, row
\* 5+i holds the 7 required fields of the i-th line, in the order of the
\* list, and the cells right of column 7 hold nothing
C1_RowsInOrder ==
    (Styled /\ AllRowsComplete(InputCsv)) =>
        LET N == Len(InputCsv.lines)
            h == InputCsv.fieldnames
        IN  /\ {p[1] : p \in {q \in DOMAIN ws.cells :
                                    q[1] >= 6 /\ ws.cells[q].value # NoneVal}}
                  = 6..(5 + N)
            /\ \A i \in 1..N : \A c \in 1..7 :
                /\ <<5 + i, c>> \in DOMAIN ws.cells
                /\ ws.cells[<<5 + i, c>>].value =
                     InputCsv.lines[i][ColumnIndex(h, RequiredColumns[c])]
            /\ \A p \in DOMAIN ws.cells :
                (p[1] >= 6 /\ p[2] > 7) => ws.cells[p].value = NoneVal

\* two different complete lines, the later record first, have been written
C1_Witness ==
    /\ Styled
    /\ file_selected.parts = <<"cwd", "a.csv">>
    /\ disk_csv.fieldnames = FullHeader
    /\ Len(disk_csv.lines) = 2
    /\ AllRowsComplete(disk_csv)
    /\ disk_csv.lines[1][1] = ProviderText("r2")
    /\ disk_csv.lines[2][1] = ProviderText("r1")
    /\ max_row(ws) = 7

\* the header texts an export leads to: those of its first line, or empty
ExpectedProvider(csv) ==
    IF csv.lines = <<>> THEN EmptyText
    ELSE IF csv.lines[1][ColumnIndex(csv.fieldnames, "Textbox9")] = ProviderText("r1")
         THEN <<"P", "a", ",", " ", "a", ",", " ">>
         ELSE <<"a", " ", "a">>

ExpectedMeta(csv, col) ==
    IF csv.lines = <<>> THEN EmptyText
    ELSE csv.lines[1][ColumnIndex(csv.fieldnames, col)]

\* C6: after apply_styles the cells of the rows 1..5 are A1, A2, A3 and
\* A5..G5: the provider name, the date range, the practice name, nothing in
\* row 4 and the 7 labels; the first data line, if any, is in row 6
C6_HeaderBlock ==
    (Styled /\ AllRowsComplete(InputCsv)) =>
        /\ {p \in DOMAIN ws.cells : p[1] <= 5} =
             {<<1, 1>>, <<2, 1>>, <<3, 1>>} \cup {<<5, c>> : c \in 1..7}
        /\ ws.cells[<<1, 1>>].value = ExpectedProvider(InputCsv)
        /\ ws.cells[<<2, 1>>].value = ExpectedMeta(InputCsv, "textbox29")
        /\ ws.cells[<<3, 1>>].value = ExpectedMeta(InputCsv, "PracticeName")
        /\ <<ws.cells[<<5, 1>>].value, ws.cells[<<5, 2>>].value,
             ws.cells[<<5, 3>>].value, ws.cells[<<5, 4>>].value,
             ws.cells[<<5, 5>>].value, ws.cells[<<5, 6>>].value,
             ws.cells[<<5, 7>>].value>> =
           << <<"Time">>, <<"Patient">>, <<"Comments">>, <<"Email">>,
              <<"Type">>, <<"Carrier">>, <<"Provider">> >>
        /\ InputCsv.lines # <<>> =>
             /\ <<6, 1>> \in DOMAIN ws.cells
             /\ ws.cells[<<6, 1>>].value =
                  ExpectedMeta(InputCsv, "AppointmentTime")

\* an export with data lines, whose provider text matches, has been styled
C6_Witness ==
    /\ Styled
    /\ file_selected.parts = <<"cwd", "a.csv">>
    /\ AllRowsComplete(disk_csv)
    /\ Len(disk_csv.lines) = 2
    /\ ws.cells[<<1, 1>>].value = <<"P", "a", ",", " ", "a", ",", " ">>
    /\ max_row(ws) = 7

IsPrefix(s, t) == Len(s) <= Len(t) /\ \A i \in 1..Len(s) : s[i] = t[i]

\* C5: the steps of a Submit are taken at most once, in the order check,
\* read, style, print, filename, save, notify; the success popup is shown
\* only with the workbook on disk; a failed path check ends the run with the
\* error popup alone; an exception ends the program, and no popup follows it
C5_Order ==
    /\ IsPrefix(trace, <<"check", "read", "style", "print", "filename", "save",
                         "notify">>)
    /\ "success" \in Range(popups) =>
        /\ "save" \in Range(trace)
        /\ Target \in DOMAIN fs
        /\ fs[Target] = Document(ws)
    /\ "error" \in Range(popups) =>
        /\ trace = <<"check">>
        /\ popups = <<"error">>
        /\ pc \in {"idle", "exited"}
    /\ exception # "none" <=> pc = "crashed"
    /\ pc = "crashed" => popups = <<>> /\ "notify" \notin Range(trace)

\* a Submit has gone through all its steps
C5_Witness ==
    /\ "success" \in Range(popups)
    /\ Len(trace) = 7
    /\ pc = "idle"
    /\ Len(InputCsv.lines) >= 1

\* C9: a save writes, under the same name, the document that the first save
\* for the same input file and folder wrote, and that document holds values
\* in the header rows and the data rows of the export only, and empty header
\* texts when the export is empty
C9_Deterministic ==
    "save" \in Range(trace) =>
        LET k == <<file_selected, folder_selected>>
            N == Len(InputCsv.lines)
        IN  /\ k \in DOMAIN first_saved
            /\ last_saved.target = first_saved[k].target
            /\ last_saved.doc = first_saved[k].doc
            /\ fs[last_saved.target] = last_saved.doc
            /\ {p[1] : p \in {q \in DOMAIN last_saved.doc.cells :
                                    last_saved.doc.cells[q].value # NoneVal}}
                  \subseteq 1..(5 + N)
            /\ N = 0 => /\ last_saved.doc.cells[<<1, 1>>].value = EmptyText
                        /\ last_saved.doc.cells[<<2, 1>>].value = EmptyText
                        /\ last_saved.doc.cells[<<3, 1>>].value = EmptyText

\* the same export has been saved to the same folder by a second Submit
C9_Witness ==
    /\ "save" \in Range(trace)
    /\ <<file_selected, folder_selected>> \in DOMAIN first_saved
    /\ first_saved[<<file_selected, folder_selected>>].submit < submits
    /\ Len(InputCsv.lines) >= 1

\* ------------------------------------------------------------------------
\* Statements the program does not meet
\* ------------------------------------------------------------------------
\* the value typed is empty or names nothing on the disk
EmptyOrMissing(v) == v = EmptyPath \/ ~exists(abspath(v))

\* C3: a Submit with an empty or missing input file or output folder shows
\* the error and reads nothing, saves nothing and shows no success
C3_InvalidPathAborts ==
    (submits > 0 /\ (EmptyOrMissing(values_in) \/ EmptyOrMissing(values_out))) =>
        /\ "read" \notin Range(trace)
        /\ "save" \notin Range(trace)
        /\ "success" \notin Range(popups)
        /\ pc # "check" => "error" \in Range(popups)

\* some data line of the export lacks one of the 7 required fields
LacksField(csv) ==
    \E i \in DOMAIN csv.lines : \E c \in Range(RequiredColumns) :
        ~Carries(csv.fieldnames, csv.lines[i], c)

\* C4: a run over an export with a data line that lacks a required field
\* ends with an error and without an output file
C4_MissingFieldAborts ==
    (/\ pc \in {"idle", "crashed", "exited"}
     /\ "read" \in Range(trace)
     /\ file_selected.parts \in CsvFiles
     /\ LacksField(InputCsv)) =>
        /\ exception # "none"
        /\ "save" \notin Range(trace)

\* the header line names all 10 columns and every data line is complete
ValidExport(csv) ==
    /\ Range(MetaColumns) \cup Range(RequiredColumns) \subseteq Range(csv.fieldnames)
    /\ AllRowsComplete(csv)

\* C10: after apply_styles the 7 label cells have the header font, and from
\* row 6 on the cells are those of the 7 columns, with the row font, wrapped
\* in column 3 only
C10_Fonts ==
    (Styled /\ ValidExport(InputCsv)) =>
        LET fonts == font_styles(font_name, provider_font_size, text_size)
        IN  /\ \A c \in 1..7 :
                /\ <<5, c>> \in DOMAIN ws.cells
                /\ ws.cells[<<5, c>>].font = fonts.header_font
            /\ \A p \in DOMAIN ws.cells :
                p[1] >= 6 =>
                    /\ p[2] \in 1..7
                    /\ ws.cells[p].font = fonts.row_font
                    /\ ws.cells[p].wrap = (p[2] = 3)

====
